---------------------------- MODULE Spec2Model ----------------------------
(***************************************************************************)
(* State-machine model of the FFX shatter transition (src/main.py): the    *)
(* per-shard animation (Shard.update, Shard.begin_sweep, Shard.translate)  *)
(* and the frame loop of main() (mouse click handling, glare fade,         *)
(* frontier sweep, cooldown, reset).                                       *)
(*                                                                         *)
(* Number representation.  The program computes with Python floats; the    *)
(* model uses integers:                                                    *)
(*   - angles (rotation_angle, rotation_delta) are fixed-point, in units   *)
(*     of 1/Scale degree; a product with the friction is truncated         *)
(*     toward zero;                                                        *)
(*   - friction is in per cent (92 for 0.92, 100 for 1);                   *)
(*   - glare_counter is in units of 1/GlareFrames (18 for 1.0);            *)
(*   - x coordinates are whole pixels; an easing value is in per mille.    *)
(* Geometry.  A shard's polygon is represented by the x coordinate of its  *)
(* centroid, the x coordinate of the left edge of its bounds and the       *)
(* total angle it has been rotated by.  A rotation about the centroid      *)
(* keeps the centroid; the model also keeps the left edge of the bounds.   *)
(* The QUIT event (main.py:226) ends the loop: the behaviour stops, which  *)
(* every specification below allows, so it has no action of its own.       *)
(***************************************************************************)
EXTENDS Integers, Sequences, FiniteSets

\* ------------------------------------------------------------ constants
\* Program constants (src/main.py).
glare_alpha_max == 130
GlareFrames == 18
ScreenWidth == 768
BoxOffsetX == 128
BoxWidth == 512
CooldownFrames == 30
BlurStart == 330
TweenLen == 60
TweenMargin == 200
Epsilon == 1
RandintLo == 8
RandintHi == 12
InitialFriction == 92
SweepFriction == 100
\* abs(rotation_delta) > .05, in units of 1/Scale degree
Scale == 100 * 100
RestThreshold == (5 * Scale) \div 100
\* random.choice([-5, -4, -3, 3, 4, 5]) (main.py:50)
SweepChoices == {-5, -4, -3, 3, 4, 5}

\* Bounds of the model.
MaxShards == 2
ShardHalfWidth == 3
MaxFrames == 115
MaxGoneTicks == 31
MaxDecayUpdates == 40
MaxTweenUpdates == 63
MaxLiveFrames == 180
MaxLiveShards == 1
GeomBoxSize == 4
MaxPoints == 2
NumVorVertices == 3
MaxRegions == 2
\* the shards create_shards may yield: <<centroid x, initial rotation_delta>>
ShardInputs == {<<132, -7000>>, <<139, 300>>}
\* the values of random.randint(8, 12) and of random.choice([...]) the model draws
SweepIncrements == {RandintLo, RandintHi}
SweepDeltas == {d \in SweepChoices : d = -5 \/ d = 3}
\* centroid x coordinates of the tween specification: left edges from 128 to 640
TweenCentroids == {cx \in (BoxOffsetX + ShardHalfWidth)..(BoxOffsetX + BoxWidth + ShardHalfWidth) :
                     (cx - ShardHalfWidth) % 16 = 0}
\* initial rotation deltas of the rotation-decay specification: (-1, 1)
DecayDeltas == {v \in (1 - Scale)..(Scale - 1) : v % 37 = 0 \/ v % 500 = 0 \/ (v < 0 /\ -v < 520) \/ (v >= 0 /\ v < 520)}

VARIABLES
  shards,          \* main(): the list of Shard objects
  glare_alpha,     \* main(): glare_alpha
  glare_counter,   \* main(): glare_counter, in units of 1/GlareFrames
  sweep_x,         \* main(): the frontier
  cooldown_timer,  \* main(): cooldown_timer
  paused,          \* main(): paused
  motion_blur,     \* main(): motion_blur
  motion_surface,  \* main(): the overlay surface, "blank" as pg.Surface creates it
                   \*   (fully transparent) or "filled" by a blur tick
  reset_ready,     \* main(): reset_ready
  blitted,         \* indices of the shards handed to screen.blit in the last tick
  frame,           \* history: non-paused ticks executed since construction / reset
  gone_ticks,      \* history: ticks since the first tick that ended with every shard Gone (-1: none yet)
  hist,            \* history, per shard: v0 (the initial rotation_delta), updates (the number of
                   \*   Shard.update calls so far), rest_at (the update count at which
                   \*   rotation_delta first was 0; -1: not yet)
  last_event,      \* observation: what the loop did last ("init", "click", "tick", "update")
  geom             \* the arguments and the result of the geometry function under study
                   \*   (create_vertices, create_voronoi_shards); NoGeom in main()

vars == <<shards, glare_alpha, glare_counter, sweep_x, cooldown_timer, paused,
          motion_blur, motion_surface, reset_ready, blitted, frame, gone_ticks, hist,
          last_event, geom>>

ctl == <<glare_alpha, glare_counter, sweep_x, cooldown_timer, paused, motion_blur,
         motion_surface, reset_ready>>

\* ------------------------------------------------------------ helpers
Abs(x) == IF x < 0 THEN -x ELSE x
Min2(a, b) == IF a < b THEN a ELSE b
Max2(a, b) == IF a > b THEN a ELSE b
\* integer quotient truncated toward zero (a float product, cut to the fixed-point grid)
TruncDiv(a, b) == IF a >= 0 THEN a \div b ELSE -((-a) \div b)
Pow5(x) == x * x * x * x * x

\* ------------------------------------------------------------ easing
\* pytweening.easeInOutQuint(f / 60), in per mille (main.py:94):
\*   n = 2 * (f/60);  0.5 * n**5  if n < 1  else  0.5 * ((n - 2)**5 + 2)
EaseInOutQuint(f) ==
  IF 2 * f < TweenLen
    THEN Pow5(f) \div 48600
    ELSE 1000 - (Pow5(TweenLen - f) \div 48600)

\* floor(pytweening.easeInOutQuad(c / 18) * glare_alpha_max) (main.py:263):
\*   2 * n**2  if n < 0.5  else  -0.5 * ((2n - 1) * (2n - 3) - 1)
\* The float counter, 1.0 less c times 1/18, lies just below c/18 from the
\* ninth decrement on (0.4999999999999998 at c = 9), so the first branch is
\* taken at c = 9 and the product lies just below 65 there: the floor of a
\* value just below x is (x's numerator - 1) \div (x's denominator).
GlareEase(c) ==
  IF 2 * c <= GlareFrames
    THEN (2 * c * c * glare_alpha_max - 1) \div (GlareFrames * GlareFrames)
    ELSE LET m == 2 * c - GlareFrames      \* 2n - 1 = m / 18
         IN  (glare_alpha_max * (GlareFrames * GlareFrames + 2 * GlareFrames * m - m * m))
               \div (2 * GlareFrames * GlareFrames)

\* mutant: the product rounded up instead of math.floor
NextGlareAlphaCeil(c) == Max2(GlareEase(c) + 1, 0)

\* glare_alpha = max(math.floor(easeInOutQuad(glare_counter) * glare_alpha_max), 0)
NextGlareAlpha(c) == Max2(GlareEase(c), 0)

\* ------------------------------------------------------------ Shard
\* Shard.__init__ for a polygon with centroid x cx, and set_rotation(-1, 1) drawing v0.
NewShard(cx, v0) ==
  [ poly_cx        |-> cx,
    poly_xmin      |-> cx - ShardHalfWidth,
    poly_angle     |-> 0,
    friction       |-> InitialFriction,
    in_motion      |-> FALSE,
    motion_frame   |-> 0,
    rotation_angle |-> 0,
    rotation_delta |-> v0,
    topleft        |-> (cx - ShardHalfWidth) - BoxOffsetX,
    tween_coords   |-> << >> ]

\* mutant: begin_sweep does not draw the new rotation_delta
begin_sweepKeepDelta(s, d) ==
  [s EXCEPT !.in_motion = TRUE, !.friction = SweepFriction]

\* Shard.begin_sweep, with random.choice giving d
begin_sweep(s, d) ==
  [s EXCEPT !.in_motion = TRUE, !.friction = SweepFriction, !.rotation_delta = d * Scale]

\* mutant: the eased offset is taken as a position, the start is not added
TweenCoordsNoStart(start_x) ==
  LET end_x == (-start_x) - TweenMargin
  IN  [k \in 1..TweenLen |-> TruncDiv(EaseInOutQuint(k - 1) * end_x, 1000)]

\* the list comprehension of Shard.translate
TweenCoords(start_x) ==
  LET end_x == (-start_x) - TweenMargin
  IN  [k \in 1..TweenLen |-> start_x + TruncDiv(EaseInOutQuint(k - 1) * end_x, 1000)]

\* Shard.translate: builds the tween on first use, then moves the polygon
\* so that its left edge goes from topleft[0] to tween_coords[motion_frame]
translate(s) ==
  LET tw    == IF s.tween_coords = << >> THEN TweenCoords(s.topleft) ELSE s.tween_coords
      delta == tw[s.motion_frame + 1] - s.topleft
  IN  [s EXCEPT !.tween_coords = tw,
                !.poly_cx = @ + delta,
                !.poly_xmin = @ + delta]

\* mutant: the threshold is tested after the multiplication
DecayDeltaSnapAfter(d, f) ==
  IF Abs(TruncDiv(d * f, 100)) > RestThreshold THEN TruncDiv(d * f, 100) ELSE 0

\* rotation_delta * friction if abs(rotation_delta) > .05 else 0
DecayDelta(d, f) == IF Abs(d) > RestThreshold THEN TruncDiv(d * f, 100) ELSE 0

\* mutant: the cursor rolls over to the first sample instead of being clamped
NextMotionFrameRollover(mf, n) == (mf + 1) % n

\* mutant: the cursor steps back once it is at the last sample
NextMotionFrameBounce(mf, n) == IF mf + 1 > n - 1 THEN n - 2 ELSE mf + 1

\* motion_frame = min(motion_frame + 1, len(tween_coords) - 1)
NextMotionFrame(mf, n) == Min2(mf + 1, n - 1)

\* Shard.update
update(s) ==
  LET d1 == DecayDelta(s.rotation_delta, s.friction)
      s1 == [s EXCEPT !.rotation_angle = @ + s.rotation_delta,
                      !.rotation_delta = d1,
                      !.poly_angle = @ + d1]
      s2 == IF s1.in_motion
              THEN LET t == translate(s1)
                   IN  [t EXCEPT !.motion_frame = NextMotionFrame(@, Len(t.tween_coords))]
              ELSE s1
  IN  [s2 EXCEPT !.topleft = s2.poly_xmin]

\* s.motion_frame == len(s.tween_coords) - 1
Gone(s) == s.motion_frame = Len(s.tween_coords) - 1

\* s.centroid_tuple()[0]
centroid_x(s) == s.poly_cx

\* create_shards: the lists of shards the sampling and the tessellation may yield
CreateShards ==
  UNION { [1..n -> {NewShard(in[1], in[2]) : in \in ShardInputs}] : n \in 0..MaxShards }

\* ------------------------------------------------------------ history
NewHist(s) == [v0 |-> s.rotation_delta, updates |-> 0,
               rest_at |-> IF s.rotation_delta = 0 THEN 0 ELSE -1]

\* the history of a shard after one more Shard.update, which left it as s
HistAfterUpdate(h, s) ==
  [h EXCEPT !.updates = @ + 1,
            !.rest_at = IF @ = -1 /\ s.rotation_delta = 0 THEN h.updates + 1 ELSE @]

AllGone(ss) == \A i \in 1..Len(ss) : Gone(ss[i])

\* ------------------------------------------------------------ main()
\* main.py:209-220: the state before the first iteration of the loop
InitMain(ss) ==
  /\ shards = ss
  /\ glare_alpha = glare_alpha_max
  /\ glare_counter = GlareFrames
  /\ sweep_x = BoxOffsetX
  /\ cooldown_timer = 0
  /\ paused = TRUE
  /\ motion_blur = FALSE
  /\ motion_surface = "blank"
  /\ reset_ready = FALSE
  /\ blitted = {}
  /\ frame = 0
  /\ gone_ticks = -1
  /\ hist = [i \in 1..Len(ss) |-> NewHist(ss[i])]
  /\ last_event = "init"

\* main(), the geometry functions not under study
NoGeom == [fn |-> "none"]

InitWith(ss) == InitMain(ss) /\ geom = NoGeom

Init == \E ss \in CreateShards : InitWith(ss)

\* mutant: a click toggles paused
ClickPausedToggle(p) == ~p

\* main.py:240: paused = False
ClickPaused(p) == FALSE

\* mutant: the glare branch is taken only while the alpha is at its maximum
GlareActiveAtMax(a) == a = glare_alpha_max

\* main.py:250, 256, 261: if glare_alpha
GlareActive(a) == a # 0

\* main.py:228-240: the MOUSEBUTTONDOWN branch of the event loop
MouseButtonDown ==
  /\ last_event' = "click"
  /\ UNCHANGED geom
  /\ IF reset_ready
       THEN /\ \E ss \in CreateShards :
                 /\ shards' = ss
                 /\ hist' = [i \in 1..Len(ss) |-> NewHist(ss[i])]
            /\ glare_alpha' = glare_alpha_max
            /\ glare_counter' = GlareFrames
            /\ sweep_x' = BoxOffsetX
            /\ cooldown_timer' = 0
            /\ paused' = TRUE
            /\ motion_blur' = FALSE
            /\ reset_ready' = FALSE
            /\ blitted' = {}
            /\ frame' = 0
            /\ gone_ticks' = -1
            /\ UNCHANGED motion_surface
       ELSE /\ paused' = ClickPaused(paused)
            /\ UNCHANGED <<shards, glare_alpha, glare_counter, sweep_x, cooldown_timer,
                           motion_blur, motion_surface, reset_ready, blitted, frame,
                           gone_ticks, hist>>

\* mutant: the comparison with the frontier is the wrong way round
SweepStartersWrongSide(ss, x) == {i \in 1..Len(ss) : centroid_x(ss[i]) > x /\ ~ss[i].in_motion}

\* mutant: begin_sweep is called on every shard behind the frontier, in motion or not
SweepStartersAgain(ss, x) == {i \in 1..Len(ss) : centroid_x(ss[i]) < x}

\* main.py:268: the shards begin_sweep is called on, given the updated shards and the frontier
SweepStarters(ss, x) == {i \in 1..Len(ss) : centroid_x(ss[i]) < x /\ ~ss[i].in_motion}

\* mutant: a Gone shard is skipped by the drawing loop
BlittedVisible(ss) == {i \in 1..Len(ss) : ~Gone(ss[i])}

\* main.py:253-255: the shards handed to screen.blit in a non-paused tick
Blitted(ss) == 1..Len(ss)

\* mutant: the cooldown starts as soon as one shard is Gone
NextCooldownAnyGone(timer, ready, ss) ==
  IF ready THEN timer
  ELSE IF timer # 0 THEN timer - 1
  ELSE IF \E i \in 1..Len(ss) : Gone(ss[i]) THEN CooldownFrames
  ELSE timer

\* main.py:279-284: the timer after the cooldown block
NextCooldown(timer, ready, ss) ==
  IF ready THEN timer
  ELSE IF timer # 0 THEN timer - 1
  ELSE IF AllGone(ss) THEN CooldownFrames
  ELSE timer

\* main.py:271-274: motion_surface after the blur block; the fill's alpha is
\* max(int(-0.3 * sweep_x + 310), 64), at least 64, so a filled surface is
\* never the transparent one pg.Surface creates
BlurSurface(blur, surface) == IF blur THEN "filled" ELSE surface

\* mutant: the cooldown never hands over to reset_ready
NextResetReadyNever(timer, ready) == ready

\* main.py:278-282: reset_ready after the cooldown block
NextResetReady(timer, ready) == ready \/ (timer # 0 /\ timer - 1 = 0)

\* main.py:242-286: the body of the loop after the events, one frame
TickBody ==
  /\ last_event' = "tick"
  /\ UNCHANGED <<paused, geom>>
  /\ IF paused
       THEN /\ UNCHANGED <<shards, glare_alpha, glare_counter, sweep_x, motion_blur,
                           motion_surface, frame, hist>>
            /\ blitted' = {}
       ELSE LET updated == [i \in 1..Len(shards) |-> update(shards[i])]
            IN  /\ blitted' = Blitted(shards)
                /\ frame' = frame + 1
                /\ hist' = [i \in 1..Len(shards) |-> HistAfterUpdate(hist[i], updated[i])]
                /\ IF GlareActive(glare_alpha)
                     THEN /\ glare_alpha' = NextGlareAlpha(glare_counter)
                          /\ glare_counter' = glare_counter - 1
                          /\ shards' = updated
                          /\ UNCHANGED <<sweep_x, motion_blur, motion_surface>>
                     ELSE /\ \E inc \in SweepIncrements :
                               sweep_x' = IF sweep_x < ScreenWidth THEN sweep_x + inc ELSE sweep_x
                          /\ \E d \in [SweepStarters(updated, sweep_x') -> SweepDeltas] :
                               shards' = [i \in 1..Len(shards) |->
                                            IF i \in DOMAIN d THEN begin_sweep(updated[i], d[i])
                                                              ELSE updated[i]]
                          /\ motion_surface' = BlurSurface(motion_blur, motion_surface)
                          /\ motion_blur' = (sweep_x' > BlurStart)
                          /\ UNCHANGED <<glare_alpha, glare_counter>>
  /\ cooldown_timer' = NextCooldown(cooldown_timer, reset_ready, shards')
  /\ reset_ready' = NextResetReady(cooldown_timer, reset_ready)
  /\ gone_ticks' = IF gone_ticks = -1
                     THEN (IF AllGone(shards') THEN 0 ELSE -1)
                     ELSE Min2(gone_ticks + 1, MaxGoneTicks)

\* one frame, for as many frames as the bound allows
Tick == (paused \/ frame < MaxFrames) /\ TickBody

Next == MouseButtonDown \/ Tick

Spec == Init /\ [][Next]_vars

\* ------------------------------------------------------------ progress
\* centroids of the progress specification: at the near edge of the box and
\* at its far edge
LiveCentroids == {BoxOffsetX + ShardHalfWidth, BoxOffsetX + BoxWidth - ShardHalfWidth}

\* the initial rotation delta of the progress specification
LiveDelta == 300

\* non-empty collections with centroids inside the box, in order of centroid
LiveShards ==
  UNION { {ss \in [1..n -> {NewShard(cx, LiveDelta) : cx \in LiveCentroids}] :
             \A i \in 1..(n - 1) : ss[i].poly_cx <= ss[i + 1].poly_cx} :
          n \in 1..MaxLiveShards }

InitLive == \E ss \in LiveShards : InitWith(ss)

\* the start signal: a click while paused
StartClick == paused /\ MouseButtonDown

\* one frame; the loop runs one per clock.tick(30) as long as running is true
TickLive == (paused \/ frame < MaxLiveFrames) /\ TickBody

NextLive == StartClick \/ TickLive

SpecLive == InitLive /\ [][NextLive]_vars /\ WF_vars(TickLive)

\* ------------------------------------------------------------ rotation decay
\* One idle shard, as Shard.__init__ leaves it, for every initial rotation_delta of DecayDeltas
InitDecay == \E v0 \in DecayDeltas : InitWith(<<NewShard(BoxOffsetX + ShardHalfWidth, v0)>>)

\* Shard.update on the idle shard
UpdateIdle ==
  /\ hist[1].updates < MaxDecayUpdates
  /\ shards' = <<update(shards[1])>>
  /\ hist' = <<HistAfterUpdate(hist[1], shards'[1])>>
  /\ last_event' = "update"
  /\ UNCHANGED <<ctl, blitted, frame, gone_ticks, geom>>

SpecDecay == InitDecay /\ [][UpdateIdle]_vars

\* ------------------------------------------------------------ sweep tween
\* One shard as the loop leaves it when its sweep begins: created, updated
\* while idle (so that topleft is the left edge of the polygon's bounds),
\* then begin_sweep; for every left edge of TweenCentroids
InitTween ==
  \E cx \in TweenCentroids : \E in \in ShardInputs : \E d \in SweepDeltas :
     LET s0 == NewShard(cx, in[2])
         s1 == update(s0)
     IN  /\ shards = <<begin_sweep(s1, d)>>
         /\ hist = <<HistAfterUpdate(NewHist(s0), s1)>>
         /\ glare_alpha = 0
         /\ glare_counter = 0
         /\ sweep_x = BoxOffsetX
         /\ cooldown_timer = 0
         /\ paused = FALSE
         /\ motion_blur = FALSE
         /\ motion_surface = "blank"
         /\ reset_ready = FALSE
         /\ blitted = {}
         /\ frame = 0
         /\ gone_ticks = -1
         /\ last_event = "init"
         /\ geom = NoGeom

\* Shard.update on the sweeping shard
UpdateSweeping ==
  /\ hist[1].updates < MaxTweenUpdates
  /\ shards' = <<update(shards[1])>>
  /\ hist' = <<HistAfterUpdate(hist[1], shards'[1])>>
  /\ last_event' = "update"
  /\ UNCHANGED <<ctl, blitted, frame, gone_ticks, geom>>

SpecTween == InitTween /\ [][UpdateSweeping]_vars

\* ------------------------------------------------------------ create_vertices
\* box offsets of the geometry specification (x, y), the origin included
GeomOffsets == {<<0, 0>>, <<2, 2>>, <<1, 3>>}

\* the points np.random.uniform can draw, on the integer grid, strictly inside the box
InsidePoints(off) ==
  {<<x, y>> : x \in (off[1] + 1)..(off[1] + GeomBoxSize - 1),
              y \in (off[2] + 1)..(off[2] + GeomBoxSize - 1)}

\* main.py:131-149: the body of the loop over random_vertices, for one point
ReflectionsOf(off, size, pt) ==
  LET boundary_line_right  == off[1] + size[1]
      boundary_line_left   == off[1]
      boundary_line_top    == off[2]
      boundary_line_bottom == off[2] + size[2]
      delta_right  == boundary_line_right - pt[1]
      delta_left   == boundary_line_left - pt[1]
      delta_top    == pt[2] - boundary_line_top
      delta_bottom == boundary_line_bottom - pt[2]
  IN  (IF delta_right < off[1] THEN << <<boundary_line_right + delta_right, pt[2]>> >> ELSE << >>)
      \o (IF delta_left < off[1] THEN << <<boundary_line_left + delta_left, pt[2]>> >> ELSE << >>)
      \o (IF delta_top < off[2] THEN << <<pt[1], boundary_line_top - delta_top>> >> ELSE << >>)
      \o (IF delta_bottom < off[2] THEN << <<pt[1], boundary_line_bottom + delta_bottom>> >> ELSE << >>)

RECURSIVE Reflected(_, _, _)
\* main.py:129-149: the list reflected
Reflected(off, size, pts) ==
  IF pts = << >> THEN << >>
  ELSE ReflectionsOf(off, size, Head(pts)) \o Reflected(off, size, Tail(pts))

\* main.py:118-151, given the points drawn: random_vertices + reflected
create_vertices(off, size, random_vertices) ==
  random_vertices \o Reflected(off, size, random_vertices)

InitVertices ==
  /\ InitMain(<< >>)
  /\ \E off \in GeomOffsets : \E n \in 1..MaxPoints : \E pts \in [1..n -> InsidePoints(off)] :
        geom = [fn |-> "create_vertices", bounding_box_offset |-> off,
                bounding_box_size |-> <<GeomBoxSize, GeomBoxSize>>,
                random_vertices |-> pts, done |-> FALSE, result |-> << >>]

\* a call of create_vertices
CreateVertices ==
  /\ geom.fn = "create_vertices" /\ ~geom.done
  /\ geom' = [geom EXCEPT !.done = TRUE,
                          !.result = create_vertices(geom.bounding_box_offset,
                                                     geom.bounding_box_size,
                                                     geom.random_vertices)]
  /\ last_event' = "create_vertices"
  /\ UNCHANGED <<shards, ctl, blitted, frame, gone_ticks, hist>>

SpecVertices == InitVertices /\ [][CreateVertices]_vars

\* ------------------------------------------------------------ create_voronoi_shards
\* the box of the Voronoi specification
VoronoiOffset == <<2, 2>>
VoronoiSize == <<GeomBoxSize, GeomBoxSize>>

\* positions of Voronoi vertices: inside the box, outside it by Epsilon,
\* outside it by more
VoronoiPoints == {<<3, 3>>, <<5, 4>>, <<VoronoiOffset[1] + GeomBoxSize + Epsilon, 5>>,
                  <<VoronoiOffset[1] + GeomBoxSize + Epsilon + 1, 3>>}

\* vor.regions entries over n vertices: the empty region, and index lists in
\* which -1 stands for a vertex at infinity (indices from 0, as in Python)
RegionChoices(n) ==
  {<< >>} \cup {r \in [1..3 -> -1..(n - 1)] : r[1] < r[2] /\ r[2] < r[3]}

\* numpy indexing: vor.vertices[k], a negative k counting from the end
VertexAt(vertices, k) == IF k < 0 THEN vertices[Len(vertices) + k + 1] ELSE vertices[k + 1]

\* main.py:160: the coordinates of Polygon(vor.vertices[region])
exterior_coords(vertices, region) == [k \in 1..Len(region) |-> VertexAt(vertices, region[k])]

\* main.py:169-172: the two tests on a point of the polygon
OutsideBox(off, size, pt) ==
  \/ pt[1] < off[1] - Epsilon \/ pt[1] > off[1] + size[1] + Epsilon
  \/ pt[2] < off[2] - Epsilon \/ pt[2] > off[2] + size[2] + Epsilon

\* main.py:163-172: drop
Dropped(off, size, coords) ==
  \/ Len(coords) = 0
  \/ \E k \in 1..Len(coords) : OutsideBox(off, size, coords[k])

\* main.py:154-185, given the diagram: one entry per polygon a Shard is built
\* from, in the order of vor.regions; region is the position of the entry's
\* region in vor.regions (the scaling by 0.9 does not change which are kept)
create_voronoi_shards(vertices, regions, off, size) ==
  LET polygons == [k \in 1..Len(regions) |->
                     [region |-> k, coords |-> exterior_coords(vertices, regions[k])]]
      Keep(p) == ~Dropped(off, size, p.coords)
  IN  SelectSeq(polygons, Keep)

\* vor.vertices: NumVorVertices distinct positions
VertexLists ==
  {vs \in [1..NumVorVertices -> VoronoiPoints] :
     \A i \in 1..NumVorVertices : \A j \in 1..NumVorVertices : i # j => vs[i] # vs[j]}

InitVoronoi ==
  /\ InitMain(<< >>)
  /\ \E vs \in VertexLists : \E n \in 1..MaxRegions :
        \E rs \in [1..n -> RegionChoices(NumVorVertices)] :
           geom = [fn |-> "create_voronoi_shards", bounding_box_offset |-> VoronoiOffset,
                   bounding_box_size |-> VoronoiSize, vertices |-> vs, regions |-> rs,
                   done |-> FALSE, result |-> << >>]

\* a call of create_voronoi_shards
CreateVoronoiShards ==
  /\ geom.fn = "create_voronoi_shards" /\ ~geom.done
  /\ geom' = [geom EXCEPT !.done = TRUE,
                          !.result = create_voronoi_shards(geom.vertices, geom.regions,
                                                           geom.bounding_box_offset,
                                                           geom.bounding_box_size)]
  /\ last_event' = "create_voronoi_shards"
  /\ UNCHANGED <<shards, ctl, blitted, frame, gone_ticks, hist>>

SpecVoronoi == InitVoronoi /\ [][CreateVoronoiShards]_vars

\* ============================================================ claims
\* the step is the reset of main.py:229-238: the shard collection is replaced
IsReset == reset_ready /\ last_event' = "click"

\* ------------------------------------------------------------ C1
\* C1: with glare_alpha_max = 130 and the counter decremented by 1/18 per
\* tick, the glare alpha in effect is 130 at frame 0 (the first non-paused
\* tick), never increases from one frame to the next, and is 0 at frame 18
\* and at every later frame until a reset.
C1_GlareFade ==
  /\ [](/\ frame = 0 => glare_alpha = glare_alpha_max
        /\ frame >= GlareFrames => glare_alpha = 0)
  /\ [][IsReset \/ glare_alpha' <= glare_alpha]_vars

\* the state before frame 18: the fade has run its 18 frames
C1_Witness ==
  /\ frame = GlareFrames /\ glare_alpha = 0 /\ glare_counter = 0
  /\ last_event = "tick" /\ Len(shards) > 0

\* ------------------------------------------------------------ C2
\* C2: once a shard's motion_frame has reached the last tween index (59),
\* every later Shard.update leaves it at 59 and the shard counts as Gone in
\* every later tick, until a reset replaces the collection.
C2_GoneStays ==
  [][IsReset \/
     \A i \in DOMAIN shards :
        shards[i].motion_frame = TweenLen - 1
          => /\ i \in DOMAIN shards'
             /\ shards'[i].motion_frame = TweenLen - 1
             /\ Gone(shards'[i])]_vars

\* a shard at index 59 that has been updated again since it got there
C2_Witness ==
  /\ last_event = "tick"
  /\ gone_ticks >= 3
  /\ \E i \in DOMAIN shards :
        shards[i].motion_frame = TweenLen - 1 /\ hist[i].updates > TweenLen + GlareFrames

\* ------------------------------------------------------------ C3
\* C3 as stated: in every state of every shard (Idle, Sweeping or Gone),
\* motion_frame does not exceed len(tween_coords) - 1.
C3_Original == \A i \in DOMAIN shards : shards[i].motion_frame <= Len(shards[i].tween_coords) - 1

\* C3 as amended: motion_frame never decreases across an update; while the
\* tween is still empty (an Idle shard, and a Sweeping one before its first
\* update) it is 0, which exceeds len(tween_coords) - 1 = -1; once the tween
\* is built it never exceeds len(tween_coords) - 1 = 59.
C3_MotionFrameBounds ==
  /\ [](\A i \in DOMAIN shards :
          IF shards[i].tween_coords = << >>
            THEN shards[i].motion_frame = 0
            ELSE /\ Len(shards[i].tween_coords) = TweenLen
                 /\ shards[i].motion_frame \in 0..(TweenLen - 1))
  /\ [][IsReset \/
        \A i \in DOMAIN shards :
           i \in DOMAIN shards' /\ shards'[i].motion_frame >= shards[i].motion_frame]_vars

\* a shard in the middle of its sweep, its cursor past the first samples
C3_Witness ==
  \E i \in DOMAIN shards :
     /\ shards[i].in_motion
     /\ shards[i].motion_frame > 5 /\ shards[i].motion_frame < TweenLen - 1

\* ------------------------------------------------------------ C4
\* C4: a mouse click is effective only as start while paused and only as
\* reset while reset_ready; received in any other phase (glare fading,
\* sweeping, cooling down) it leaves every controller variable and every
\* shard unchanged.
C4_ClickIgnored ==
  [][last_event' = "click" =>
       IF reset_ready
         THEN paused' /\ ~reset_ready' /\ shards' \in CreateShards
         ELSE IF paused
           THEN ~paused' /\ UNCHANGED <<shards, glare_alpha, glare_counter, sweep_x,
                                        cooldown_timer, motion_blur, reset_ready>>
           ELSE UNCHANGED <<shards, ctl>>]_vars

\* a click has just been handled during the cooldown
C4_Witness ==
  /\ last_event = "click"
  /\ ~paused /\ ~reset_ready
  /\ cooldown_timer > 0 /\ Len(shards) > 0

\* ------------------------------------------------------------ C5
\* C5: for any two idle shards A and B with centroid x-coordinates xA < xB,
\* the tick in which A gets begin_sweep is never later than the tick in
\* which B gets it, whatever the random frontier increments.
C5_SweepOrder ==
  [][\A a \in DOMAIN shards : \A b \in DOMAIN shards :
        (/\ ~shards[a].in_motion /\ ~shards[b].in_motion
         /\ centroid_x(shards[a]) < centroid_x(shards[b])
         /\ ~IsReset
         /\ b \in DOMAIN shards' /\ shards'[b].in_motion)
        => (a \in DOMAIN shards' /\ shards'[a].in_motion)]_vars

\* A has just got begin_sweep while B, further from the near edge, is still idle
C5_Witness ==
  \E a \in DOMAIN shards : \E b \in DOMAIN shards :
     /\ shards[a].in_motion /\ shards[a].motion_frame = 0
     /\ ~shards[b].in_motion
     /\ centroid_x(shards[a]) < centroid_x(shards[b])

\* ------------------------------------------------------------ C6
\* C6: the sweep starts only after the glare has fully faded: wherever
\* glare alpha > 0, the frontier sweep_x still has its initial value (the
\* box's near edge) and no shard is in_motion.
C6_SweepAfterGlare ==
  glare_alpha > 0 =>
     /\ sweep_x = BoxOffsetX
     /\ \A i \in DOMAIN shards : ~shards[i].in_motion

\* the last frame of the fade: the glare is still drawn, shards have been updated
C6_Witness ==
  /\ ~paused /\ last_event = "tick" /\ Len(shards) > 0
  /\ glare_alpha > 0 /\ frame = GlareFrames - 1

\* ------------------------------------------------------------ C7
\* C7: reset_ready becomes true only after a tick in which every shard of
\* the collection is Gone, exactly 30 ticks after the first such tick, and
\* never earlier.
C7_CooldownLength == reset_ready <=> gone_ticks >= CooldownFrames

\* reset_ready has just become true, 30 ticks after the shards were all Gone
C7_Witness ==
  /\ reset_ready /\ gone_ticks = CooldownFrames
  /\ Len(shards) = MaxShards /\ AllGone(shards)

\* ------------------------------------------------------------ C8
\* C8 as stated: a shard that is Gone is not handed to the renderer in any
\* later tick.
C8_Original ==
  [][\A i \in DOMAIN shards :
        (Gone(shards[i]) /\ ~IsReset /\ last_event' = "tick") => i \notin blitted']_vars

\* C8 as amended: a shard that is Gone is still updated and handed to the
\* renderer (screen.blit) in every later tick until a reset; it remains in
\* the shard collection and is counted by the completion check, which starts
\* the cooldown only in a tick that ends with every shard Gone.
C8_GoneStillBlitted ==
  [][last_event' = "tick" =>
       /\ \A i \in DOMAIN shards :
             Gone(shards[i]) => (i \in blitted' /\ i \in DOMAIN shards' /\ Gone(shards'[i]))
       /\ (cooldown_timer = 0 /\ cooldown_timer' = CooldownFrames) => AllGone(shards')]_vars

\* a shard that went Gone some ticks ago was handed to screen.blit in the last tick
C8_Witness ==
  /\ last_event = "tick" /\ gone_ticks >= 2
  /\ \E i \in DOMAIN shards : Gone(shards[i]) /\ i \in blitted

\* ------------------------------------------------------------ C9
\* C9: if shard creation yields zero shards the controller re-samples: no
\* tick of the transition (glare fade, sweep, cooldown, ready-to-reset)
\* is ever executed with an empty shard collection.
C9_NoEmptyTransition ==
  (last_event = "tick" /\ (~paused \/ cooldown_timer > 0 \/ reset_ready)) => Len(shards) > 0

\* ------------------------------------------------------------ C10
\* the least n with |v0 * f^n| <= 0.05, the products taken one by one as Shard.update takes them
RECURSIVE LeastN(_)
LeastN(v) == IF Abs(v) <= RestThreshold THEN 0 ELSE 1 + LeastN(TruncDiv(v * InitialFriction, 100))

\* C10 as stated: the number of updates until an idle shard's rotation_delta
\* is exactly 0 equals the least n with |v0| * f^n <= 0.05
\* (ceil(log(0.05/|v0|) / log(f))).
C10_Original ==
  hist[1].rest_at # -1 => hist[1].rest_at = LeastN(hist[1].v0)

\* C10 as amended: for an idle shard with initial rotation_delta v0 in (-1, 1)
\* and friction 0.92, the magnitude of rotation_delta never increases from
\* one update to the next, and rotation_delta is exactly 0 for the first
\* time after 1 + n updates, n being the least n >= 0 with
\* |v0| * f^n <= 0.05 (after 0 updates when v0 = 0): the update that brings
\* the magnitude to 0.05 or below still multiplies, the next one snaps to 0.
C10_DecaySteps ==
  /\ [](LET h == hist[1]
            n == 1 + LeastN(h.v0)
        IN  /\ h.v0 = 0 => h.rest_at = 0
            /\ h.v0 # 0 => h.rest_at = (IF h.updates >= n THEN n ELSE -1)
            /\ (shards[1].rotation_delta = 0) <=> (h.rest_at # -1))
  /\ [][Abs(shards'[1].rotation_delta) <= Abs(shards[1].rotation_delta)]_vars

\* a decay that took more than 30 updates to come to rest
C10_Witness ==
  /\ hist[1].rest_at > 30 /\ shards[1].rotation_delta = 0
  /\ ~shards[1].in_motion /\ last_event = "update"

\* ------------------------------------------------------------ C11
\* C11 as stated: once a shard's rotation_delta has become exactly 0, it is
\* 0 after every later operation on the shard (update and begin_sweep),
\* until a reset.
C11_Original ==
  [][IsReset \/
     \A i \in DOMAIN shards :
        shards[i].rotation_delta = 0 => (i \in DOMAIN shards' /\ shards'[i].rotation_delta = 0)]_vars

\* C11 as amended: once an idle shard's rotation_delta has become exactly
\* 0, every later update leaves it 0 as long as the shard is idle;
\* begin_sweep ends the rest: it replaces the 0 by a value drawn from
\* {-5, -4, -3, 3, 4, 5}.
C11_RestWhileIdle ==
  [][IsReset \/
     \A i \in DOMAIN shards :
        shards[i].rotation_delta = 0
          => /\ i \in DOMAIN shards'
             /\ ~shards[i].in_motion
             /\ IF shards'[i].in_motion
                  THEN shards'[i].rotation_delta \in {d * Scale : d \in SweepChoices}
                  ELSE shards'[i].rotation_delta = 0]_vars

\* an idle shard that came to rest and has been updated at rest since
C11_Witness ==
  \E i \in DOMAIN shards :
     /\ ~shards[i].in_motion /\ shards[i].rotation_delta = 0
     /\ hist[i].rest_at > 0 /\ hist[i].updates > hist[i].rest_at + 3

\* ------------------------------------------------------------ C12
\* the step in which Shard.translate builds shard i's tween
TweenBuilt(i) ==
  /\ i \in DOMAIN shards /\ i \in DOMAIN shards'
  /\ shards[i].tween_coords = << >> /\ shards'[i].tween_coords # << >>

\* samples that never move against the sweep direction (toward smaller x)
Leftward(tw) == \A k \in 1..(Len(tw) - 1) : tw[k + 1] <= tw[k]

C13_ResetRestoresInit ==
  [][IsReset /\ Len(shards) > 0 =>
       /\ shards' \in CreateShards
       /\ \A i \in DOMAIN shards' :
             /\ ~shards'[i].in_motion
             /\ shards'[i].motion_frame = 0
             /\ shards'[i].tween_coords = << >>
             /\ shards'[i].friction = InitialFriction
             /\ shards'[i].rotation_angle = 0
       /\ glare_alpha' = glare_alpha_max
       /\ glare_counter' = GlareFrames
       /\ sweep_x' = BoxOffsetX
       /\ cooldown_timer' = 0
       /\ ~motion_blur'
       /\ ~reset_ready'
       /\ paused'
       /\ motion_surface' = "blank"]_vars

\* ------------------------------------------------------------ C14
\* the mirror images of a point across the four edges of the box
FourMirrors(off, size, pt) ==
  { <<2 * off[1] - pt[1], pt[2]>>,
    <<2 * (off[1] + size[1]) - pt[1], pt[2]>>,
    <<pt[1], 2 * off[2] - pt[2]>>,
    <<pt[1], 2 * (off[2] + size[2]) - pt[2]>> }

\* C14: create_vertices returns the N sampled points plus, for every sampled
\* point and for each of the four box edges (left, right, top, bottom), the
\* mirror image of that point across that edge, for every box offset and
\* size, offset (0,0) included.
C14_AllFourMirrors ==
  (geom.fn = "create_vertices" /\ geom.done) =>
     LET n    == Len(geom.random_vertices)
         refl == {geom.result[k] : k \in (n + 1)..Len(geom.result)}
     IN  /\ Len(geom.result) >= n
         /\ SubSeq(geom.result, 1, n) = geom.random_vertices
         /\ refl = UNION {FourMirrors(geom.bounding_box_offset, geom.bounding_box_size,
                                      geom.random_vertices[k]) : k \in 1..n}

\* ------------------------------------------------------------ C15
\* the finite vertices of a region lie within Epsilon of the box on both axes
RegionWithinBox(k) ==
  \A j \in 1..Len(geom.regions[k]) :
     geom.regions[k][j] >= 0 =>
        ~OutsideBox(geom.bounding_box_offset, geom.bounding_box_size,
                    geom.vertices[geom.regions[k][j] + 1])

\* C15: create_voronoi_shards builds a shard for a Voronoi region only if the
\* region is non-empty, bounded (its vertex index list contains no -1 marker)
\* and has every vertex within 1 unit of the bounding box on both axes; every
\* other region is discarded.
C15_OnlyBoundedKept ==
  (geom.fn = "create_voronoi_shards" /\ geom.done) =>
     \A k \in 1..Len(geom.regions) :
        (\E j \in 1..Len(geom.result) : geom.result[j].region = k)
          <=> /\ geom.regions[k] # << >>
              /\ \A j \in 1..Len(geom.regions[k]) : geom.regions[k][j] # -1
              /\ RegionWithinBox(k)

SweepRotations == {d * Scale : d \in SweepChoices}

\* C17: the Idle to Sweeping transition is one-way and happens at most once
\* per shard: begin_sweep is applied only to shards that are not in_motion
\* (a shard enters in_motion with friction 1 and a rotation_delta drawn from
\* {-5,-4,-3,3,4,5}), and from then until reset the shard stays in_motion
\* with friction equal to 1 and that rotation_delta unchanged.
C17_SweepOneWay ==
  [][IsReset \/
     \A i \in DOMAIN shards :
        /\ i \in DOMAIN shards'
        /\ shards'[i].in_motion =>
              /\ shards'[i].friction = SweepFriction
              /\ shards'[i].rotation_delta \in SweepRotations
        /\ shards[i].in_motion =>
              /\ shards'[i].in_motion
              /\ shards'[i].rotation_delta = shards[i].rotation_delta]_vars

\* a shard well into its sweep, many updates after begin_sweep
C17_Witness ==
  \E i \in DOMAIN shards :
     /\ shards[i].in_motion
     /\ shards[i].friction = SweepFriction
     /\ shards[i].motion_frame > TweenLen \div 2
     /\ ~reset_ready

\* ------------------------------------------------------------ C18
\* C18: after every Shard.update, the total angle by which the shard's
\* polygon outline has been rotated since creation equals rotation_angle,
\* the accumulated angle used to rotate the rendered image, so outline and
\* image never drift apart.
C18_OutlineFollowsImage ==
  \A i \in DOMAIN shards :
     hist[i].updates > 0 => shards[i].poly_angle = shards[i].rotation_angle

\* ------------------------------------------------------------ C19
\* C19: the controller flags always denote exactly one phase: in every
\* reachable state, for any shard collection returned by create_shards (an
\* empty one included), paused is never true together with
\* cooldown_timer > 0 or with reset_ready, and cooldown_timer > 0 is never
\* true together with reset_ready.
C19_OnePhase ==
  /\ ~(paused /\ cooldown_timer > 0)
  /\ ~(paused /\ reset_ready)
  /\ ~(cooldown_timer > 0 /\ reset_ready)

====
